---------------------------- MODULE Spec2Model ----------------------------
(***************************************************************************)
(* A model of yuty/tools: the pickle value store (save_pickle.py) and the  *)
(* offline exchange stubs (binance_offline.py).                            *)
(*                                                                         *)
(* A file is a sequence of bytes (0..255).  pickle.dump and pickle.load    *)
(* are modelled at the level of the protocol-4 byte stream they write and  *)
(* read: opcodes, frames, the unpickler's stack.                           *)
(***************************************************************************)
EXTENDS Integers, Sequences, FiniteSets, TLC

(***************************************************************************)
(* Python values.  A value is a record tagged by its type.                 *)
(***************************************************************************)
NoneV == [t |-> "None"]
BoolV(b) == [t |-> "bool", b |-> b]
IntV(n) == [t |-> "int", n |-> n]
\* A float, by the 8 bytes of its IEEE 754 double, most significant first.
FloatV(bytes) == [t |-> "float", bytes |-> bytes]
\* A str, by the bytes of its UTF-8 encoding.
StrV(s) == [t |-> "str", s |-> s]
TupleV(items) == [t |-> "tuple", items |-> items]
ListV(items) == [t |-> "list", items |-> items]
DictV(pairs) == [t |-> "dict", pairs |-> pairs]
\* An object pickle cannot serialize (an open socket).
SocketV == [t |-> "socket"]
\* The unpickler's MARK object; never a value of the program.
MarkV == [t |-> "MARK"]

(***************************************************************************)
(* The pickler: protocol 4 opcodes.                                        *)
(***************************************************************************)
PROTO == 128
FRAME == 149
STOP == 46
\* Marks of the pickler's opcode stream: a save() entry, and a raise.
BOUNDARY == 0 - 2
RAISE == 0 - 1
\* The pickler commits a frame once it holds this many bytes (64 KiB in
\* CPython; scaled down here so that small values span several frames).
FRAME_SIZE_TARGET == 6
\* A frame shorter than this is written without a FRAME header.
FRAME_SIZE_MIN == 4

RECURSIVE Flatten(_)
Flatten(ss) == IF ss = <<>> THEN <<>> ELSE Head(ss) \o Flatten(Tail(ss))

RECURSIVE Emit(_)
\* What Pickler.save(v) emits: a BOUNDARY at its entry, then v's opcodes
\* with those of its items inline; RAISE where it raises TypeError.
Emit(v) ==
  <<BOUNDARY>> \o
  CASE v.t = "None" -> <<78>>
    [] v.t = "bool" -> <<IF v.b THEN 136 ELSE 137>>
    [] v.t = "int" -> <<75, v.n>>
    [] v.t = "float" -> <<71>> \o v.bytes
    [] v.t = "str" -> <<140, Len(v.s)>> \o v.s \o <<148>>
    [] v.t = "tuple" ->
         LET n == Len(v.items)
             body == Flatten([i \in 1..n |-> Emit(v.items[i])])
         IN  IF n = 0 THEN <<41>>
             ELSE IF n <= 3 THEN body \o <<132 + n, 148>>
             ELSE <<40>> \o body \o <<116, 148>>
    [] v.t = "list" ->
         LET n == Len(v.items)
             body == Flatten([i \in 1..n |-> Emit(v.items[i])])
         IN  IF n = 0 THEN <<93, 148>>
             ELSE IF n = 1 THEN <<93, 148>> \o body \o <<97>>
             ELSE <<93, 148, 40>> \o body \o <<101>>
    [] v.t = "dict" ->
         LET n == Len(v.pairs)
             body == Flatten([i \in 1..n |->
                        Emit(v.pairs[i][1]) \o Emit(v.pairs[i][2])])
         IN  IF n = 0 THEN <<125, 148>>
             ELSE IF n = 1 THEN <<125, 148>> \o body \o <<115>>
             ELSE <<125, 148, 40>> \o body \o <<117>>
    [] OTHER -> <<RAISE>>

\* A committed frame as written: a FRAME header with the 8-byte
\* little-endian length (lengths here stay below 256), then the payload.
FrameBytesOffByOne(frame) ==
  IF Len(frame) >= FRAME_SIZE_MIN
  THEN <<FRAME, Len(frame) + 1, 0, 0, 0, 0, 0, 0, 0>> \o frame
  ELSE frame
FrameBytes(frame) ==
  IF Len(frame) >= FRAME_SIZE_MIN
  THEN <<FRAME, Len(frame), 0, 0, 0, 0, 0, 0, 0>> \o frame
  ELSE frame

RECURSIVE Framer(_, _, _)
\* The pickler over its opcode stream: frame is the current frame, head
\* what precedes it in the output buffer, writes the file.write calls made
\* so far.  At a BOUNDARY a frame that reached the target is committed and
\* flushed to the file in one write.
Framer(stream, frame, acc) ==
  IF stream = <<>>
  THEN [writes |-> Append(acc.writes, acc.head \o FrameBytes(frame \o <<STOP>>)),
        raised |-> FALSE]
  ELSE LET b == Head(stream) IN
    IF b = RAISE THEN [writes |-> acc.writes, raised |-> TRUE]
    ELSE IF b = BOUNDARY
    THEN IF Len(frame) >= FRAME_SIZE_TARGET
         THEN Framer(Tail(stream), <<>>,
                     [writes |-> Append(acc.writes, acc.head \o FrameBytes(frame)),
                      head |-> <<>>])
         ELSE Framer(Tail(stream), frame, acc)
    ELSE Framer(Tail(stream), Append(frame, b), acc)

\* pickle.dump(var, f): the sequence of f.write calls it makes, and whether
\* it raises (TypeError: cannot pickle) after them.
Dump(v) == Framer(Emit(v), <<>>, [writes |-> <<>>, head |-> <<PROTO, 4>>])

\* pickle.dumps(v) for a serializable v: the whole byte stream.
Dumps(v) == Flatten(Dump(v).writes)

Serializable(v) == ~Dump(v).raised

(***************************************************************************)
(* The unpickler: a stack machine over the bytes of the file.              *)
(***************************************************************************)
HIGHEST_PROTOCOL == 5

Ok(v) == [ok |-> TRUE, v |-> v]
Err(exc) == [ok |-> FALSE, exc |-> exc]

\* The index of the topmost MARK of the stack (the fence), 0 without one.
Fence(st) ==
  LET marks == {i \in 1..Len(st) : st[i] = MarkV}
  IN  IF marks = {} THEN 0 ELSE CHOOSE i \in marks : \A j \in marks : j <= i

\* Python's hash/eq on keys: True and 1, False and 0 are the same key.
RECURSIVE KeyNorm(_)
KeyNorm(k) ==
  IF k.t = "bool" THEN IntV(IF k.b THEN 1 ELSE 0)
  ELSE IF k.t = "tuple"
  THEN TupleV([i \in 1..Len(k.items) |-> KeyNorm(k.items[i])])
  ELSE k

RECURSIVE Hashable(_)
Hashable(k) ==
  IF k.t \in {"list", "dict", "MARK"} THEN FALSE
  ELSE IF k.t = "tuple" THEN \A i \in 1..Len(k.items) : Hashable(k.items[i])
  ELSE TRUE

\* obj[k] = v (PyObject_SetItem) for one pair.
SetItem(obj, k, v) ==
  IF obj.t = "dict"
  THEN IF ~Hashable(k) THEN Err("TypeError")
       ELSE LET hit == {i \in 1..Len(obj.pairs) : KeyNorm(obj.pairs[i][1]) = KeyNorm(k)}
            IN  IF hit = {} THEN Ok(DictV(Append(obj.pairs, <<k, v>>)))
                ELSE Ok(DictV([i \in 1..Len(obj.pairs) |->
                          IF i \in hit THEN <<obj.pairs[i][1], v>> ELSE obj.pairs[i]]))
  ELSE IF obj.t = "list"
  THEN IF k.t \notin {"int", "bool"} THEN Err("TypeError")
       ELSE IF KeyNorm(k).n >= Len(obj.items) THEN Err("IndexError")
       ELSE Ok(ListV([obj.items EXCEPT ![KeyNorm(k).n + 1] = v]))
  ELSE Err("TypeError")

RECURSIVE SetItems(_, _)
\* do_setitems: the pairs of kvs, in order, stored into obj.
SetItems(obj, kvs) ==
  IF kvs = <<>> THEN Ok(obj)
  ELSE LET r == SetItem(obj, kvs[1], kvs[2])
       IN  IF r.ok THEN SetItems(r.v, SubSeq(kvs, 3, Len(kvs))) ELSE r

\* do_append: items appended to obj, which must be a list.
DoAppend(obj, items) ==
  IF obj.t = "list" THEN Ok(ListV(obj.items \o items)) ELSE Err("AttributeError")

RECURSIVE Run(_, _, _)
\* Unpickler.load from byte i of bs with stack st (top last).
Run(bs, i, st) ==
  IF i > Len(bs) THEN Err("EOFError")
  ELSE
  LET op == bs[i]
      n == Len(st)
      f == Fence(st)
      left == Len(bs) - i
      under == Err("UnpicklingError")
      short == Err("UnpicklingError")
  IN
  CASE op = PROTO ->
         IF left < 1 THEN short
         ELSE IF bs[i + 1] > HIGHEST_PROTOCOL THEN Err("ValueError")
         ELSE Run(bs, i + 2, st)
    [] op = FRAME ->
         IF left < 8 THEN short
         ELSE IF bs[i + 8] >= 128 THEN Err("OverflowError")
         ELSE IF \E j \in 5..8 : bs[i + j] # 0 THEN Err("MemoryError")
         ELSE IF \E j \in 2..4 : bs[i + j] # 0 THEN short
         ELSE IF left - 8 < bs[i + 1] THEN short
         ELSE Run(bs, i + 9, st)
    [] op = 78 -> Run(bs, i + 1, Append(st, NoneV))
    [] op = 136 -> Run(bs, i + 1, Append(st, BoolV(TRUE)))
    [] op = 137 -> Run(bs, i + 1, Append(st, BoolV(FALSE)))
    [] op = 75 ->
         IF left < 1 THEN short ELSE Run(bs, i + 2, Append(st, IntV(bs[i + 1])))
    [] op = 71 ->
         IF left < 8 THEN short
         ELSE Run(bs, i + 9, Append(st, FloatV(SubSeq(bs, i + 1, i + 8))))
    [] op = 140 ->
         IF left < 1 \/ left - 1 < bs[i + 1] THEN short
         ELSE LET s == SubSeq(bs, i + 2, i + 1 + bs[i + 1])
              IN  IF \E j \in 1..Len(s) : s[j] >= 128 THEN Err("UnicodeDecodeError")
                  ELSE Run(bs, i + 2 + bs[i + 1], Append(st, StrV(s)))
    [] op = 148 -> IF n <= f THEN under ELSE Run(bs, i + 1, st)
    [] op = 40 -> Run(bs, i + 1, Append(st, MarkV))
    [] op = 41 -> Run(bs, i + 1, Append(st, TupleV(<<>>)))
    [] op \in {133, 134, 135} ->
         LET k == op - 132
         IN  IF n - k < f THEN under
             ELSE Run(bs, i + 1,
                      Append(SubSeq(st, 1, n - k), TupleV(SubSeq(st, n - k + 1, n))))
    [] op = 116 ->
         IF f = 0 THEN Err("UnpicklingError")
         ELSE Run(bs, i + 1, Append(SubSeq(st, 1, f - 1), TupleV(SubSeq(st, f + 1, n))))
    [] op = 93 -> Run(bs, i + 1, Append(st, ListV(<<>>)))
    [] op = 125 -> Run(bs, i + 1, Append(st, DictV(<<>>)))
    [] op = 97 ->
         IF n - 1 <= f THEN under
         ELSE LET r == DoAppend(st[n - 1], <<st[n]>>)
              IN  IF r.ok THEN Run(bs, i + 1, Append(SubSeq(st, 1, n - 2), r.v)) ELSE r
    [] op = 101 ->
         IF f = 0 THEN Err("UnpicklingError")
         ELSE IF f - 1 <= Fence(SubSeq(st, 1, f - 1)) THEN under
         ELSE IF n = f THEN Run(bs, i + 1, SubSeq(st, 1, f - 1))
         ELSE LET r == DoAppend(st[f - 1], SubSeq(st, f + 1, n))
              IN  IF r.ok THEN Run(bs, i + 1, Append(SubSeq(st, 1, f - 2), r.v)) ELSE r
    [] op = 115 ->
         IF n - 2 <= f THEN under
         ELSE LET r == SetItem(st[n - 2], st[n - 1], st[n])
              IN  IF r.ok THEN Run(bs, i + 1, Append(SubSeq(st, 1, n - 3), r.v)) ELSE r
    [] op = 117 ->
         IF f = 0 THEN Err("UnpicklingError")
         ELSE IF f - 1 <= Fence(SubSeq(st, 1, f - 1)) THEN under
         ELSE IF n = f THEN Run(bs, i + 1, SubSeq(st, 1, f - 1))
         ELSE IF (n - f) % 2 # 0 THEN Err("UnpicklingError")
         ELSE LET r == SetItems(st[f - 1], SubSeq(st, f + 1, n))
              IN  IF r.ok THEN Run(bs, i + 1, Append(SubSeq(st, 1, f - 2), r.v)) ELSE r
    [] op = STOP -> IF n <= f THEN under ELSE Ok(st[n])
    [] OTHER -> Err("UnpicklingError")

\* pickle.load(f) on a file holding bs.
Load(bs) == Run(bs, 1, <<>>)

(***************************************************************************)
(* Exceptions and the except clauses of the two functions.                 *)
(***************************************************************************)
\* The classes an exception of class e is an instance of.
Ancestors(e) ==
  IF e \in {"FileNotFoundError", "PermissionError"}
  THEN {e, "OSError", "Exception", "BaseException"}
  ELSE IF e = "UnicodeDecodeError"
  THEN {e, "ValueError", "Exception", "BaseException"}
  ELSE IF e = "IndexError"
  THEN {e, "LookupError", "Exception", "BaseException"}
  ELSE {e, "Exception", "BaseException"}

Catches(clause, e) == clause \in Ancestors(e)

\* How a call ends: what it returns, whether an exception leaves it, and
\* the notice it prints.
Outcome(ret, raised, notice) == [ret |-> ret, raised |-> raised, notice |-> notice]

\* save_variable_to_pkl: "except Exception as e: print(...)".
SaveHandlerRaises(e) == Outcome(NoneV, TRUE, "none")
SaveHandler(e) ==
  IF Catches("Exception", e) THEN Outcome(NoneV, FALSE, "save_failed")
  ELSE Outcome(NoneV, TRUE, "none")

\* load_variable_from_pkl: "except FileNotFoundError", "except Exception",
\* then "return None".
LoadHandlerReturnsFalse(e) ==
  IF Catches("FileNotFoundError", e) THEN Outcome(BoolV(FALSE), FALSE, "load_not_found")
  ELSE Outcome(BoolV(FALSE), FALSE, "load_failed")
LoadHandlerOnlyNotFound(e) ==
  IF Catches("FileNotFoundError", e) THEN Outcome(NoneV, FALSE, "load_not_found")
  ELSE Outcome(NoneV, TRUE, "none")
LoadHandler(e) ==
  IF Catches("FileNotFoundError", e) THEN Outcome(NoneV, FALSE, "load_not_found")
  ELSE IF Catches("Exception", e) THEN Outcome(NoneV, FALSE, "load_failed")
  ELSE Outcome(NoneV, TRUE, "none")

\* The try body of save_variable_to_pkl once the with block is left: the
\* success notice, unless pickle.dump raised.
SaveResult(d) ==
  IF d.raised THEN SaveHandler("TypeError") ELSE Outcome(NoneV, FALSE, "save_ok")

\* The try body of load_variable_from_pkl once the with block is left:
\* "return var", or the handlers.
LoadResult(r) ==
  IF r.ok THEN Outcome(r.v, FALSE, "load_ok") ELSE LoadHandler(r.exc)

(***************************************************************************)
(* The file system and file objects.                                       *)
(***************************************************************************)
\* An ordinary path, and a path whose directory does not exist.
Ordinary == "data.pkl"
NoDir == "missing_dir/data.pkl"
Paths == {Ordinary, NoDir}

NoFile == [exists |-> FALSE, data |-> <<>>]
File(data) == [exists |-> TRUE, data |-> data]

\* Files that hold bytes no pickle.dump wrote: empty, text, a cut pickle.
CorruptFiles ==
  { <<>>,
    <<103, 97, 114, 98, 97, 103, 101>>,
    <<128, 4, 93, 148, 40, 75, 1>> }

\* open(filename, mode): the exception it raises, "" when it opens.
OpenErrExclusive(files, p, mode) ==
  IF p = NoDir THEN "FileNotFoundError"
  ELSE IF mode = "rb" /\ ~files[p].exists THEN "FileNotFoundError"
  ELSE IF mode = "wb" /\ files[p].exists THEN "FileExistsError"
  ELSE ""
OpenErr(files, p, mode) ==
  IF p = NoDir THEN "FileNotFoundError"
  ELSE IF mode = "rb" /\ ~files[p].exists THEN "FileNotFoundError"
  ELSE ""

\* open(filename, 'wb'): the file is created, or truncated to no bytes.
OpenWBKeeps(file) == File(file.data)
OpenWB(file) == File(<<>>)

\* A write of bytes at offset pos of a file; a gap is filled with zeros.
WriteAppends(file, pos, bytes) == File(file.data \o bytes)
WriteAt(file, pos, bytes) ==
  LET old == file.data
      end == pos + Len(bytes)
      n == IF end > Len(old) THEN end ELSE Len(old)
  IN  File([i \in 1..n |->
             IF i > pos /\ i <= end THEN bytes[i - pos]
             ELSE IF i <= Len(old) THEN old[i] ELSE 0])

\* open(filename, 'rb') leaves the file as it is.
OpenRBTruncates(file) == File(<<>>)
OpenRB(file) == file

Closed == [open |-> FALSE, path |-> "", pos |-> 0]
Opened(p) == [open |-> TRUE, path |-> p, pos |-> 0]

\* Leaving "with open(...) as f": f is closed on every exit path.
WithExitLeaks(h) == h
WithExit(h) == Closed

(***************************************************************************)
(* The value store as a state machine.                                     *)
(***************************************************************************)
\* The calls a run makes (completed or in progress).
MaxCalls == 3

Callers == {1, 2}

\* {"n": [1, 2], "v": (10.5,), "a": True}: the shape of example_data.
ExampleData ==
  DictV(<< <<StrV(<<110>>), ListV(<<IntV(1), IntV(2)>>)>>,
           <<StrV(<<118>>), TupleV(<<FloatV(<<64, 37, 0, 0, 0, 0, 0, 0>>)>>)>>,
           <<StrV(<<97>>), BoolV(TRUE)>> >>)

\* The values the sequential caller saves: None, an int, a mapping like the
\* example of __main__, a list that spans two frames, and two lists holding
\* a socket (pickle.dump raises before, and after, its first write).
Values ==
  { NoneV,
    IntV(1),
    ExampleData,
    ListV(<<IntV(1), IntV(2), IntV(3)>>),
    ListV(<<IntV(1), SocketV>>),
    ListV(<<IntV(1), IntV(2), IntV(3), SocketV>>) }

\* The values concurrent callers save, all serializable: two written in one
\* write, two in two writes.
ConcValues ==
  { IntV(1),
    TupleV(<<IntV(1), IntV(2)>>),
    ListV(<<IntV(1), IntV(2), IntV(3)>>),
    ListV(<<IntV(2), IntV(1), IntV(4)>>) }

NoArg == [t |-> "noarg"]
Nothing == [t |-> "nothing"]

VARIABLES
  fs,          \* path -> file
  handles,     \* caller -> the file object its call holds
  pc,          \* caller -> "idle", "dump" (in save's with block), "read"
  call,        \* caller -> the locals of its call
  log,         \* the calls that returned, in order: arguments and outcome
  lastWritten, \* the value of the save that wrote to Ordinary last
  module,      \* binance_offline: "unloaded", "loaded" or "SyntaxError"
  config,      \* the configuration handed to BinanceOffline
  used         \* the uses of BinanceOffline made so far, and how each ended

vars == <<fs, handles, pc, call, log, lastWritten, module, config, used>>
storeVars == <<fs, handles, pc, call, log, lastWritten>>
offlineVars == <<module, config, used>>

NoCall == [op |-> "none", path |-> "", var |-> NoArg, nw |-> 0, existed |-> FALSE]

Entry(op, p, arg, existed, out) ==
  [op |-> op, path |-> p, arg |-> arg, existed |-> existed,
   ret |-> out.ret, raised |-> out.raised, notice |-> out.notice]

InFlight == {c \in Callers : pc[c] # "idle"}
MayCall(c) == pc[c] = "idle" /\ Len(log) + Cardinality(InFlight) < MaxCalls

InitStore ==
  /\ fs \in {[p \in Paths |-> IF p = Ordinary THEN f ELSE NoFile] :
               f \in {NoFile} \cup {File(b) : b \in CorruptFiles}}
  /\ handles = [c \in Callers |-> Closed]
  /\ pc = [c \in Callers |-> "idle"]
  /\ call = [c \in Callers |-> NoCall]
  /\ log = <<>>
  /\ lastWritten = Nothing

\* save_variable_to_pkl(var, filename), up to open(filename, 'wb'): the
\* call ends here when open raises.
SaveOpen(c, v, p) ==
  /\ MayCall(c)
  /\ LET e == OpenErr(fs, p, "wb") IN
     IF e # ""
     THEN /\ log' = Append(log, Entry("save", p, v, fs[p].exists, SaveHandler(e)))
          /\ UNCHANGED <<fs, handles, pc, call>>
     ELSE /\ fs' = [fs EXCEPT ![p] = OpenWB(@)]
          /\ handles' = [handles EXCEPT ![c] = Opened(p)]
          /\ pc' = [pc EXCEPT ![c] = "dump"]
          /\ call' = [call EXCEPT ![c] =
                        [op |-> "save", path |-> p, var |-> v, nw |-> 0,
                         existed |-> fs[p].exists]]
          /\ UNCHANGED log
  /\ UNCHANGED <<lastWritten, offlineVars>>

\* One f.write of pickle.dump(var, f) reaching the file.
SaveWrite(c) ==
  /\ pc[c] = "dump"
  /\ LET ws == Dump(call[c].var).writes
         h == handles[c]
     IN  /\ call[c].nw < Len(ws)
         /\ fs' = [fs EXCEPT ![h.path] = WriteAt(@, h.pos, ws[call[c].nw + 1])]
         /\ handles' = [handles EXCEPT ![c].pos = @ + Len(ws[call[c].nw + 1])]
         /\ call' = [call EXCEPT ![c].nw = @ + 1]
         /\ lastWritten' = call[c].var
  /\ UNCHANGED <<pc, log, offlineVars>>

\* pickle.dump returns or raises; the with block closes f; the call prints
\* its notice and returns.
SaveExit(c) ==
  /\ pc[c] = "dump"
  /\ LET d == Dump(call[c].var) IN
       /\ call[c].nw = Len(d.writes)
       /\ log' = Append(log, Entry("save", call[c].path, call[c].var,
                                   call[c].existed, SaveResult(d)))
  /\ handles' = [handles EXCEPT ![c] = WithExit(@)]
  /\ pc' = [pc EXCEPT ![c] = "idle"]
  /\ UNCHANGED <<fs, call, lastWritten, offlineVars>>

\* load_variable_from_pkl(filename), up to open(filename, 'rb'): the call
\* ends here when open raises.
LoadOpen(c, p) ==
  /\ MayCall(c)
  /\ LET e == OpenErr(fs, p, "rb") IN
     IF e # ""
     THEN /\ log' = Append(log, Entry("load", p, NoArg, fs[p].exists, LoadHandler(e)))
          /\ UNCHANGED <<fs, handles, pc, call>>
     ELSE /\ fs' = [fs EXCEPT ![p] = OpenRB(@)]
          /\ handles' = [handles EXCEPT ![c] = Opened(p)]
          /\ pc' = [pc EXCEPT ![c] = "read"]
          /\ call' = [call EXCEPT ![c] =
                        [op |-> "load", path |-> p, var |-> NoArg, nw |-> 0,
                         existed |-> fs[p].exists]]
          /\ UNCHANGED log
  /\ UNCHANGED <<lastWritten, offlineVars>>

\* pickle.load(f) reads the file; the with block closes f; the call prints
\* its notice and returns.
LoadFinish(c) ==
  /\ pc[c] = "read"
  /\ log' = Append(log, Entry("load", call[c].path, NoArg, call[c].existed,
                              LoadResult(Load(fs[call[c].path].data))))
  /\ handles' = [handles EXCEPT ![c] = WithExit(@)]
  /\ pc' = [pc EXCEPT ![c] = "idle"]
  /\ UNCHANGED <<fs, call, lastWritten, offlineVars>>

(***************************************************************************)
(* binance_offline.py: the module and the methods BinanceOffline           *)
(* overrides.                                                              *)
(***************************************************************************)
\* The uses of BinanceOffline a run makes.
MaxUses == 2

Methods ==
  { "get_tickers", "get_historic_ohlcv", "get_historic_ohlcv_fast",
    "fetch_funding_rates", "load_leverage_tiers", "dry_run_liquidation_price",
    "_async_get_trade_history_id_startup", "_async_get_trade_history_id",
    "additional_exchange_init", "get_proxy_coin" }

Pairs == {"BTC/USDT", "ETH/BTC"}
StakeCurrencies == {"USDT", "BTC"}

Text(s) == [t |-> "text", s |-> s]
EmptyDataFrame == [t |-> "DataFrame", columns |-> "DEFAULT_DATAFRAME_COLUMNS", rows |-> 0]

\* The quote characters that open and that close each method's docstring
\* in the source text.
DocstringQuotes(m) == IF m = "get_proxy_coin" THEN <<3, 2>> ELSE <<3, 3>>

\* A string opened by three quotes ends only at three quotes.
Terminated(q) == q[2] = q[1]

\* Compiling the module: every string literal has to end.
Compiles == \A m \in Methods : Terminated(DocstringQuotes(m))

\* The return statement of each overriding method.
MethodBody(m, pair, cfg) ==
  CASE m \in {"get_tickers", "fetch_funding_rates", "load_leverage_tiers"} -> DictV(<<>>)
    [] m \in {"get_historic_ohlcv", "get_historic_ohlcv_fast"} -> EmptyDataFrame
    [] m = "_async_get_trade_history_id_startup" -> TupleV(<<ListV(<<>>), Text("0")>>)
    [] m = "_async_get_trade_history_id" -> TupleV(<<Text(pair), ListV(<<>>)>>)
    [] m = "get_proxy_coin" -> Text(cfg.stake_currency)
    [] OTHER -> NoneV

InitOffline ==
  /\ module = "unloaded"
  /\ used = <<>>

\* "from yuty.tools.binance_offline import BinanceOffline".
Import ==
  /\ module = "unloaded"
  /\ module' = IF Compiles THEN "loaded" ELSE "SyntaxError"
  /\ UNCHANGED <<config, used, storeVars>>

\* A script that has run the import statement calls method m of a
\* BinanceOffline object: the call returns, or the script has already
\* failed with the import's error.
Use(m, pair) ==
  /\ module # "unloaded"
  /\ Len(used) < MaxUses
  /\ used' = Append(used,
       [method |-> m, pair |-> pair,
        raised |-> IF module = "loaded" THEN "" ELSE module,
        ret |-> IF module = "loaded" THEN MethodBody(m, pair, config) ELSE Nothing])
  /\ UNCHANGED <<module, config, storeVars>>

(***************************************************************************)
(* Specifications.                                                         *)
(***************************************************************************)
\* One caller: calls never overlap.
Init ==
  /\ InitStore
  /\ InitOffline
  /\ config = [stake_currency |-> "USDT"]

Next ==
  \/ \E v \in Values, p \in Paths : SaveOpen(1, v, p)
  \/ SaveWrite(1)
  \/ SaveExit(1)
  \/ \E p \in Paths : LoadOpen(1, p)
  \/ LoadFinish(1)

Spec == Init /\ [][Next]_vars

\* Two callers on the ordinary path, their calls interleaved step by step.
NextConc ==
  \E c \in Callers :
    \/ \E v \in ConcValues : SaveOpen(c, v, Ordinary)
    \/ SaveWrite(c)
    \/ SaveExit(c)
    \/ LoadOpen(c, Ordinary)
    \/ LoadFinish(c)

SpecConc == Init /\ [][NextConc]_vars

\* Scripts that use BinanceOffline; the value store is not called.
InitScripts ==
  /\ InitStore
  /\ InitOffline
  /\ config \in [stake_currency : StakeCurrencies]

NextScripts ==
  \/ Import
  \/ \E m \in Methods, pair \in Pairs : Use(m, pair)

SpecScripts == InitScripts /\ [][NextScripts]_vars

(***************************************************************************)
(* Properties.                                                             *)
(***************************************************************************)
Idx == 1..Len(log)
IsSave(i) == log[i].op = "save"
IsLoad(i) == log[i].op = "load"

\* The saves to the path of entry j that returned before it.
SavesBefore(j) == {i \in 1..(j - 1) : IsSave(i) /\ log[i].path = log[j].path}
LastOf(S) == CHOOSE i \in S : \A k \in S : k <= i

Returned(i, v) == log[i].ret = v /\ ~log[i].raised /\ log[i].notice = "load_ok"
Quiet == InFlight = {}

\* A step of a load call: its open, its read, its return.
LoadReturns == Len(log') = Len(log) + 1 /\ log'[Len(log')].op = "load"
LoadStep == LoadReturns \/ \E c \in Callers : pc[c] = "read" \/ pc'[c] = "read"

\* C1: a load that directly follows the save of a serializable value v to a
\* fresh, writable path returns a value equal to v.
RoundTrip ==
  \A i \in Idx : \A j \in Idx :
    ( /\ j = i + 1
      /\ IsSave(i) /\ IsLoad(j)
      /\ log[i].path = Ordinary /\ log[j].path = Ordinary
      /\ ~log[i].existed
      /\ Serializable(log[i].arg) )
    => Returned(j, log[i].arg)

RoundTripWitness ==
  /\ Len(log) = 2
  /\ IsSave(1) /\ IsLoad(2)
  /\ ~log[1].existed /\ log[1].path = Ordinary
  /\ log[1].arg = ExampleData /\ Len(Dump(log[1].arg).writes) > 1
  /\ Returned(2, log[1].arg)

\* C2: a load returns the value of the most recent save to its path, when
\* that value is serializable, and no value an earlier save stored; a save
\* to a file that exists succeeds.
Overwrite ==
  \A j \in Idx :
    (IsLoad(j) /\ log[j].path = Ordinary /\ SavesBefore(j) # {}) =>
      LET i == LastOf(SavesBefore(j)) IN
        Serializable(log[i].arg) =>
          /\ log[i].notice = "save_ok"
          /\ Returned(j, log[i].arg)
          /\ \A k \in SavesBefore(j) :
               log[k].arg # log[i].arg => log[j].ret # log[k].arg

OverwriteWitness ==
  /\ Len(log) = 3
  /\ IsSave(1) /\ IsSave(2) /\ IsLoad(3)
  /\ \A i \in 1..3 : log[i].path = Ordinary
  /\ log[1].notice = "save_ok" /\ log[2].notice = "save_ok"
  /\ log[2].existed
  /\ log[1].arg # log[2].arg
  /\ Returned(3, log[2].arg)

\* C3: a load of a path that does not exist, or of a file whose bytes do
\* not unpickle, returns None without raising, prints the matching notice
\* and leaves the file system as it was.
LoadAbsorbsFailure ==
  [][ /\ LoadStep => fs' = fs
      /\ LoadReturns =>
           LET e == log'[Len(log')]
               f == fs[e.path]
           IN  (~f.exists \/ ~Load(f.data).ok) =>
                 /\ e.ret = NoneV
                 /\ ~e.raised
                 /\ e.notice = IF f.exists THEN "load_failed" ELSE "load_not_found"
    ]_vars

LoadAbsorbsFailureWitness ==
  /\ Len(log) = 3
  /\ \A i \in 1..3 : IsLoad(i)
  /\ log[1].path = Ordinary /\ log[1].notice = "load_failed" /\ log[1].ret = NoneV
  /\ log[2].path = NoDir /\ log[2].notice = "load_not_found" /\ log[2].ret = NoneV
  /\ fs[Ordinary].data \in CorruptFiles /\ Len(fs[Ordinary].data) > 0
  /\ ~fs[NoDir].exists

\* C4: a save of a value that cannot be pickled, or to a path that cannot
\* be opened, does not raise: it prints the failure notice, not the success
\* notice, and returns None as every save does.
SaveAbsorbsFailure ==
  \A i \in Idx : IsSave(i) =>
    /\ log[i].ret = NoneV
    /\ (~Serializable(log[i].arg) \/ log[i].path = NoDir) =>
         (~log[i].raised /\ log[i].notice = "save_failed")

SaveAbsorbsFailureWitness ==
  /\ Len(log) = 3
  /\ \A i \in 1..3 : IsSave(i) /\ ~log[i].raised
  /\ log[1].path = Ordinary /\ ~Serializable(log[1].arg) /\ log[1].notice = "save_failed"
  /\ log[2].path = NoDir /\ Serializable(log[2].arg) /\ log[2].notice = "save_failed"
  /\ log[3].path = Ordinary /\ log[3].notice = "save_ok"

\* C5 as claimed: a load returns None exactly when it failed.
LoadNoneIffFailed ==
  \A j \in Idx : IsLoad(j) => (log[j].ret = NoneV <=> log[j].notice # "load_ok")

\* C5 as amended: a load that failed returns None, and a load that
\* succeeded returns None only when None is the value that was saved.
LoadNoneIffFailedOrNoneSaved ==
  \A j \in Idx : IsLoad(j) =>
    /\ log[j].notice # "load_ok" => log[j].ret = NoneV
    /\ (log[j].notice = "load_ok" /\ log[j].ret = NoneV) =>
         /\ SavesBefore(j) # {}
         /\ log[LastOf(SavesBefore(j))].arg = NoneV

LoadNoneWitness ==
  /\ Len(log) = 3
  /\ IsLoad(1) /\ log[1].notice = "load_failed" /\ log[1].ret = NoneV
  /\ IsSave(2) /\ log[2].arg = NoneV /\ log[2].notice = "save_ok"
  /\ IsLoad(3) /\ log[3].notice = "load_ok" /\ log[3].ret = NoneV

\* C6: a load leaves the file of its path as it is, and returns what every
\* earlier load of the path returned since the last save to it.
LoadIdempotent ==
  [][ /\ LoadStep => fs'[Ordinary] = fs[Ordinary]
      /\ LoadReturns =>
           LET e == log'[Len(log')] IN
             \A i \in Idx :
               ( /\ IsLoad(i) /\ log[i].path = e.path
                 /\ \A k \in (i + 1)..Len(log) : ~(IsSave(k) /\ log[k].path = e.path) )
               => (log[i].ret = e.ret /\ log[i].notice = e.notice /\ log[i].raised = e.raised)
    ]_vars

LoadIdempotentWitness ==
  /\ Len(log) = 3
  /\ IsSave(1) /\ IsLoad(2) /\ IsLoad(3)
  /\ \A i \in 1..3 : log[i].path = Ordinary
  /\ log[1].arg.t = "list"
  /\ Returned(2, log[1].arg) /\ Returned(3, log[1].arg)

\* C8: a caller holds an open file only inside the with block of its call;
\* once the call has returned, whatever its outcome, the file is closed.
HandlesReleased ==
  \A c \in Callers : handles[c].open <=> pc[c] \in {"dump", "read"}

HandlesReleasedWitness ==
  /\ Len(log) = 3
  /\ Quiet
  /\ IsSave(1) /\ log[1].path = Ordinary /\ log[1].notice = "save_failed"
  /\ IsLoad(2) /\ log[2].path = Ordinary /\ log[2].notice = "load_failed"
  /\ IsSave(3) /\ log[3].notice = "save_ok"
  /\ \A c \in Callers : ~handles[c].open

\* A load that finishes while no other call is in progress.
QuietLoadReturns(c) ==
  /\ pc[c] = "read" /\ pc'[c] = "idle"
  /\ InFlight = {c}
  /\ lastWritten # Nothing

FailedSaveDestroys ==
  /\ \A i \in Idx :
       (IsSave(i) /\ log[i].path = Ordinary /\ ~Serializable(log[i].arg)) =>
         /\ log[i].notice = "save_failed"
         /\ (i = Len(log) /\ Quiet) =>
              (fs[Ordinary].exists /\ ~Load(fs[Ordinary].data).ok)
         /\ (i < Len(log) /\ IsLoad(i + 1) /\ log[i + 1].path = Ordinary) =>
              /\ log[i + 1].existed
              /\ log[i + 1].ret = NoneV
              /\ log[i + 1].notice = "load_failed"

FailedSaveDestroysWitness ==
  /\ Len(log) = 3
  /\ IsSave(1) /\ IsSave(2) /\ IsLoad(3)
  /\ \A i \in 1..3 : log[i].path = Ordinary
  /\ log[1].notice = "save_ok" /\ log[1].arg = IntV(1)
  /\ ~Serializable(log[2].arg) /\ log[2].notice = "save_failed"
  /\ log[3].ret = NoneV /\ log[3].notice = "load_failed"

\* C7: every use of a method BinanceOffline overrides returns the method's
\* fixed value, whatever the arguments and the configuration.
OverridesReturnDefaults ==
  \A i \in 1..Len(used) :
    LET u == used[i] IN
      /\ u.raised = ""
      /\ u.ret =
           CASE u.method \in {"get_tickers", "fetch_funding_rates", "load_leverage_tiers"}
                  -> DictV(<<>>)
             [] u.method \in {"get_historic_ohlcv", "get_historic_ohlcv_fast"}
                  -> EmptyDataFrame
             [] u.method = "dry_run_liquidation_price" -> NoneV
             [] u.method = "_async_get_trade_history_id_startup"
                  -> TupleV(<<ListV(<<>>), Text("0")>>)
             [] u.method = "_async_get_trade_history_id"
                  -> TupleV(<<Text(u.pair), ListV(<<>>)>>)
             [] u.method = "additional_exchange_init" -> NoneV
             [] u.method = "get_proxy_coin" -> Text(config.stake_currency)

=============================================================================
